---- MODULE Spec2Model ----
(***************************************************************************)
(* Spatial / frustum volume construction of the multiview diffusion model  *)
(* (pose_diffusion/models/View_feature_extractor.py and                    *)
(* View_feature_extractor_net.py).                                         *)
(*                                                                         *)
(* Tensors are modelled as a shape and a row-major buffer, indexed from 0  *)
(* as in the source.  The trailing axes an operation leaves alone (the     *)
(* embedding vector of a row, the V*V*V voxels of a channel) are one       *)
(* element of the buffer.  The value of a learned network on an input is   *)
(* the term built from what it reads (free interpretation): two results    *)
(* are equal in the model only if they are computed from equal inputs by   *)
(* the same parameters.                                                    *)
(***************************************************************************)
EXTENDS Integers, Sequences, FiniteSets, TLC

\* ------------------------------------------------------------------ bounds
MaxViewNum == 2
MaxB == 2
MaxTN == 2
MaxRows == 4
MaxSeed == 1
MaxParams == 1
MaxSize == 17
MaxBumps == 2
MaxGrid == 2
CoordDen == 2
SampleChannels == 2
MaxAngleK == 13
MaxImageK == 8
MaxDepth == 4
MaxVox == 3
MaxImage == 3

\* ------------------------------------------------------- program constants
EncoderOutDim == 16
FrustumInDim == 64
DefaultInputImageSize == 256
DefaultFrustumVolumeDepth == 48
DefaultSpatialVolumeSize == 32
FrustumStride == 8
GroupNormGroups == 8
TargetElevationDeg == 30
HalfTurnDeg == 180
DefaultImageSize == 256
LatentStride == 8
SpatialDims == <<64, 128, 256, 512>>
\* (variant: every level of the frustum network built with the width of the first)
FrustumDimsUniform == <<64, 64, 64, 64>>
FrustumDims == <<64, 128, 256, 512>>

\* ------------------------------------------------------------ tensor runtime
Prod(shape) == IF Len(shape) = 0 THEN 1
               ELSE IF Len(shape) = 1 THEN shape[1]
               ELSE IF Len(shape) = 2 THEN shape[1] * shape[2]
               ELSE shape[1] * shape[2] * shape[3]

Tensor(shape, data) == [shape |-> shape, data |-> data]

\* a tensor of shape <<n>> / <<n, m>> filled elementwise
Fill1(n, F(_)) == Tensor(<<n>>, [i \in 0..(n - 1) |-> F(i)])
Fill2(n, m, F(_, _)) ==
    Tensor(<<n, m>>, [i \in 0..(n * m - 1) |-> F(i \div m, i % m)])

At1(t, i) == t.data[i]
At2(t, i, j) == t.data[i * t.shape[2] + j]
At3(t, i, j, k) == t.data[(i * t.shape[2] + j) * t.shape[3] + k]

\* torch.Tensor.view: the same buffer read under another shape
View(t, shape) == Tensor(shape, t.data)
ViewOk(t, shape) == Prod(shape) = Prod(t.shape)

\* t.unsqueeze(1) of a 1-d tensor: shape <<n>> -> <<n, 1>>
Unsqueeze1(t) == Tensor(<<t.shape[1], 1>>, t.data)
\* t.unsqueeze(0) of a 1-d tensor: shape <<n>> -> <<1, n>>
Unsqueeze0(t) == Tensor(<<1, t.shape[1]>>, t.data)

\* t.repeat(r0, r1) of a 2-d tensor: the tensor tiled r0 x r1 times
Repeat2(t, r0, r1) ==
    LET s0 == t.shape[1]
        s1 == t.shape[2]
    IN  Tensor(<<s0 * r0, s1 * r1>>,
               [i \in 0..(s0 * r0 * s1 * r1 - 1) |->
                   t.data[((i \div (s1 * r1)) % s0) * s1 + ((i % (s1 * r1)) % s1)]])

\* t[:, j] of a 2-d tensor
SelectCol(t, j) == Fill1(t.shape[1], LAMBDA i : At2(t, i, j))

\* torch.arange(n)
Arange(n) == Fill1(n, LAMBDA i : i)

\* (variant: an indexing that accepts the indices of [0, n) only)
IndexInRangeChecked(i, n) == (0 <= i) /\ (i < n)

\* integer-tensor indexing: an index i of an axis of size n addresses element
\* i for 0 <= i < n and element i + n for -n <= i < 0; any other index raises
IndexInRange(i, n) == (-n <= i) /\ (i < n)
WrapIndex(i, n) == IF i < 0 THEN i + n ELSE i

\* table[idx] for a 1-d table and a 1-d index tensor
IndexRowsOk(table, idx) ==
    \A r \in DOMAIN idx.data : IndexInRange(idx.data[r], table.shape[1])
IndexRows(table, idx) ==
    Fill1(idx.shape[1], LAMBDA r : At1(table, WrapIndex(At1(idx, r), table.shape[1])))

\* table[rows[:, None], cols] for a 2-d table, rows of shape <<B>> (read as
\* <<B, 1>>) and cols of shape <<B, TN>>: the two index tensors broadcast to
\* <<B, TN>>
IndexPairsOk(table, rows, cols) ==
    /\ \A b \in DOMAIN rows.data : IndexInRange(rows.data[b], table.shape[1])
    /\ \A r \in DOMAIN cols.data : IndexInRange(cols.data[r], table.shape[2])
IndexPairs(table, rows, cols) ==
    Fill2(cols.shape[1], cols.shape[2],
          LAMBDA b, j : At2(table, WrapIndex(At1(rows, b), table.shape[1]),
                                   WrapIndex(At2(cols, b, j), table.shape[2])))

\* torch.stack(list, 1) of a list of n tensors of shape <<B, C>>: <<B, n, C>>
Stack1(list, B, C) ==
    LET n == Len(list)
    IN  Tensor(<<B, n, C>>,
               [i \in 0..(B * n * C - 1) |->
                   At2(list[((i \div C) % n) + 1], i \div (n * C), i % C)])

\* ------------------------------------------------------------ tensor shapes
\* the shape of a 5-d tensor <<B, C, D, H, W>>, or the failure of the
\* operation that was to produce it
Ok(shape) == [ok |-> TRUE, shape |-> shape]
ShapeError == [ok |-> FALSE, shape |-> <<>>]

\* (variant: a transposed convolution built without output_padding)
ConvTOutNoPad(n, k, s, p, op) == (n - 1) * s - 2 * p + k

\* (variant: a convolution that ignores its padding)
ConvOutNoPad(n, k, s, p) == ((n - k) \div s) + 1

\* output size of nn.Conv3d / nn.ConvTranspose3d along one axis
ConvOut(n, k, s, p) == ((n + 2 * p - k) \div s) + 1
ConvTOut(n, k, s, p, op) == (n - 1) * s - 2 * p + k + op

\* broadcasting of one axis in an elementwise a + b
BroadcastOk(a, b) == (a = b) \/ (a = 1) \/ (b = 1)
BroadcastDim(a, b) == IF a = 1 THEN b ELSE a

AddShape(a, b) ==
    IF a.ok /\ b.ok /\ (\A i \in 1..5 : BroadcastOk(a.shape[i], b.shape[i]))
    THEN Ok([i \in 1..5 |-> BroadcastDim(a.shape[i], b.shape[i])])
    ELSE ShapeError

\* nn.Conv3d(cin, cout, k, stride, padding)
Conv3dShape(x, cin, cout, k, s, p) ==
    IF x.ok /\ x.shape[2] = cin
       /\ (\A i \in 3..5 : x.shape[i] + 2 * p >= k)
    THEN Ok(<<x.shape[1], cout, ConvOut(x.shape[3], k, s, p),
              ConvOut(x.shape[4], k, s, p), ConvOut(x.shape[5], k, s, p)>>)
    ELSE ShapeError

\* nn.ConvTranspose3d(cin, cout, kernel_size=3, padding=1, output_padding=1, stride=2)
ConvTranspose3dShape(x, cin, cout) ==
    IF x.ok /\ x.shape[2] = cin
    THEN Ok(<<x.shape[1], cout, ConvTOut(x.shape[3], 3, 2, 1, 1),
              ConvTOut(x.shape[4], 3, 2, 1, 1), ConvTOut(x.shape[5], 3, 2, 1, 1)>>)
    ELSE ShapeError

\* nn.GroupNorm(8, c) followed by nn.SiLU: the shape is kept, c channels expected
NormActShape(x, c) ==
    IF x.ok /\ x.shape[2] = c /\ c % GroupNormGroups = 0 THEN x ELSE ShapeError

\* an embedding of B rows viewed as <<B, dim, 1, 1, 1>> and passed through a
\* 1x1x1 convolution to c channels
EmbedShape(rows, c) == Ok(<<rows, c, 1, 1, 1>>)

\* SpatialTimeBlock.forward
SpatialTimeBlockShape(x, tB, x_in_dim, out_dim, stride) ==
    Conv3dShape(NormActShape(AddShape(x, EmbedShape(tB, x_in_dim)), x_in_dim),
                x_in_dim, out_dim, 3, stride, 1)

\* SpatialUpTimeBlock.forward
SpatialUpTimeBlockShape(x, tB, x_in_dim, out_dim) ==
    ConvTranspose3dShape(NormActShape(AddShape(x, EmbedShape(tB, x_in_dim)), x_in_dim),
                         x_in_dim, out_dim)

\* SpatialTime3DNet.forward on x of shape xs with t of tB rows: the two
\* operands of each of its three skip additions, and what it returns
SpatialTime3DNetTrace(xs, tB, input_dim, dims) ==
    LET d0 == dims[1]
        d1 == dims[2]
        d2 == dims[3]
        d3 == dims[4]
        x0 == Conv3dShape(xs, input_dim, d0, 3, 1, 1)
        conv0 == SpatialTimeBlockShape(x0, tB, d0, d0, 1)
        x1 == SpatialTimeBlockShape(conv0, tB, d0, d1, 2)
        x2 == SpatialTimeBlockShape(x1, tB, d1, d1, 1)
        conv2 == SpatialTimeBlockShape(x2, tB, d1, d1, 1)
        x3 == SpatialTimeBlockShape(conv2, tB, d1, d2, 2)
        x4 == SpatialTimeBlockShape(x3, tB, d2, d2, 1)
        conv4 == SpatialTimeBlockShape(x4, tB, d2, d2, 1)
        x5 == SpatialTimeBlockShape(conv4, tB, d2, d3, 2)
        x6 == SpatialTimeBlockShape(x5, tB, d3, d3, 1)
        x7 == SpatialTimeBlockShape(x6, tB, d3, d3, 1)
        up7 == SpatialUpTimeBlockShape(x7, tB, d3, d2)
        x8 == AddShape(conv4, up7)
        up8 == SpatialUpTimeBlockShape(x8, tB, d2, d1)
        x9 == AddShape(conv2, up8)
        up9 == SpatialUpTimeBlockShape(x9, tB, d1, d0)
    IN  [ skips |-> << <<conv4, up7>>, <<conv2, up8>>, <<conv0, up9>> >>,
          out |-> AddShape(conv0, up9) ]

SpatialTime3DNetShape(xs, tB, input_dim, dims) ==
    SpatialTime3DNetTrace(xs, tB, input_dim, dims).out

\* FrustumTVBlock.forward
FrustumTVBlockShape(x, tB, vB, x_dim, out_dim, stride) ==
    Conv3dShape(NormActShape(AddShape(AddShape(x, EmbedShape(tB, x_dim)),
                                      EmbedShape(vB, x_dim)), x_dim),
                x_dim, out_dim, 3, stride, 1)

\* FrustumTVUpBlock.forward
FrustumTVUpBlockShape(x, tB, vB, x_dim, out_dim) ==
    ConvTranspose3dShape(NormActShape(AddShape(AddShape(x, EmbedShape(tB, x_dim)),
                                               EmbedShape(vB, x_dim)), x_dim),
                         x_dim, out_dim)

\* a Python dict display {k1: v1, ..., kn: vn}: a later entry with an equal
\* key replaces the earlier one
DictOf(pairs) ==
    [k \in {pairs[i][1] : i \in 1..Len(pairs)} |->
        LET last == CHOOSE i \in 1..Len(pairs) :
                        /\ pairs[i][1] = k
                        /\ \A j \in (i + 1)..Len(pairs) : pairs[j][1] # k
        IN  pairs[last][2]]

\* FrustumTV3DNet.forward on x of shape xs: the shapes x0..x3 it returns,
\* in this order, or <<>> when an operation raises
FrustumTV3DNetLevels(xs, tB, vB, in_dim, dims) ==
    LET x0a == Conv3dShape(xs, in_dim, dims[1], 3, 1, 1)
        x1a == FrustumTVBlockShape(FrustumTVBlockShape(x0a, tB, vB, dims[1], dims[2], 2),
                                   tB, vB, dims[2], dims[2], 1)
        x2a == FrustumTVBlockShape(FrustumTVBlockShape(x1a, tB, vB, dims[2], dims[3], 2),
                                   tB, vB, dims[3], dims[3], 1)
        x3 == FrustumTVBlockShape(FrustumTVBlockShape(x2a, tB, vB, dims[3], dims[4], 2),
                                  tB, vB, dims[4], dims[4], 1)
        x2 == AddShape(FrustumTVUpBlockShape(x3, tB, vB, dims[4], dims[3]), x2a)
        x1 == AddShape(FrustumTVUpBlockShape(x2, tB, vB, dims[3], dims[2]), x1a)
        x0 == AddShape(FrustumTVUpBlockShape(x1, tB, vB, dims[2], dims[1]), x0a)
    IN  IF x0.ok /\ x1.ok /\ x2.ok /\ x3.ok
        THEN <<x0.shape, x1.shape, x2.shape, x3.shape>>
        ELSE <<>>

\* (variant: the third level returned under the key of the second)
FrustumTV3DNetDictKeyReused(w, levels) ==
    DictOf(<< <<w, [level |-> 0, shape |-> levels[1]]>>,
              <<w \div 2, [level |-> 1, shape |-> levels[2]]>>,
              <<w \div 2, [level |-> 2, shape |-> levels[3]]>>,
              <<w \div 8, [level |-> 3, shape |-> levels[4]]>> >>)

\* the dict FrustumTV3DNet.forward returns for an input of width w, given the
\* shapes of its four levels: key -> [level, shape]
FrustumTV3DNetDict(w, levels) ==
    DictOf(<< <<w, [level |-> 0, shape |-> levels[1]]>>,
              <<w \div 2, [level |-> 1, shape |-> levels[2]]>>,
              <<w \div 4, [level |-> 2, shape |-> levels[3]]>>,
              <<w \div 8, [level |-> 3, shape |-> levels[4]]>> >>)

\* FrustumTV3DNet(64, time_dim, view_dim, dims).forward on x of shape xs: the
\* dict it returns, or <<>> when it raises
FrustumTV3DNetForward(xs, tB, vB) ==
    LET levels == FrustumTV3DNetLevels(xs, tB, vB, FrustumInDim, FrustumDims)
    IN  IF levels = <<>> THEN <<>> ELSE FrustumTV3DNetDict(xs.shape[5], levels)

\* FrustumTV3DNet.forward: the two operands of each of its three skip
\* additions, self.up0(x3) + x2, self.up1(x2) + x1 and self.up2(x1) + x0
FrustumTV3DNetSkips(xs, tB, vB, in_dim, dims) ==
    LET x0a == Conv3dShape(xs, in_dim, dims[1], 3, 1, 1)
        x1a == FrustumTVBlockShape(FrustumTVBlockShape(x0a, tB, vB, dims[1], dims[2], 2),
                                   tB, vB, dims[2], dims[2], 1)
        x2a == FrustumTVBlockShape(FrustumTVBlockShape(x1a, tB, vB, dims[2], dims[3], 2),
                                   tB, vB, dims[3], dims[3], 1)
        x3 == FrustumTVBlockShape(FrustumTVBlockShape(x2a, tB, vB, dims[3], dims[4], 2),
                                  tB, vB, dims[4], dims[4], 1)
        up0 == FrustumTVUpBlockShape(x3, tB, vB, dims[4], dims[3])
        x2 == AddShape(up0, x2a)
        up1 == FrustumTVUpBlockShape(x2, tB, vB, dims[3], dims[2])
        x1 == AddShape(up1, x1a)
        up2 == FrustumTVUpBlockShape(x1, tB, vB, dims[2], dims[1])
    IN  << <<up0, x2a>>, <<up1, x1a>>, <<up2, x0a>> >>

\* ------------------------------------------------------------------- state
VARIABLES
    view_num,        \* SyncMultiviewDiffusion.view_num
    svn,             \* the attributes of self.spatial_volume (SpatialVolumeNet)
    params,          \* version of the learned parameters
    poses, Ks, azimuth,   \* the registered camera metadata buffers
    pc,              \* position of the forward pass
    err,             \* the exception that ended the pass, "none" otherwise
    x, t_embed, v_embed,  \* the arguments of construct_spatial_volume
    target_indices,  \* the argument of construct_view_frustum_volume
    ni,              \* loop variable of construct_spatial_volume
    feats_list,      \* the list spatial_volume_feats filled by the loop
    spatial_volume,  \* what construct_spatial_volume returned
    frustum,         \* what construct_view_frustum_volume returned
    seen_volume,     \* a volume an earlier call returned, with its arguments
    seen_row,        \* a row an earlier resampling returned, with its origin
    shape_call       \* the last single call of a function, its inputs and result

vars == <<view_num, svn, params, poses, Ks, azimuth, pc, err, x, t_embed, v_embed,
          target_indices, ni, feats_list, spatial_volume, frustum,
          seen_volume, seen_row, shape_call>>

buffers == <<poses, Ks, azimuth>>
inputs == <<x, t_embed, v_embed>>

EmptyTensor == Tensor(<<0>>, <<>>)
NoVolume == [shape |-> <<>>, rows |-> EmptyTensor, store |-> "none"]
NoFrustum == [dict |-> <<>>, rows |-> EmptyTensor, store |-> "none"]
NoSeen == [valid |-> FALSE]
NoShapeCall == [net |-> "none"]

\* ---------------------------------------------------------- construction
\* (variant: the frustum width taken as input_image_size // 64)
SpatialVolumeNetInitCoarse(vn, input_image_size, frustum_volume_depth, spatial_volume_size) ==
    [ encoder_out_dim |-> EncoderOutDim,
      input_dim |-> EncoderOutDim * vn,
      input_image_size |-> input_image_size,
      spatial_volume_size |-> spatial_volume_size,
      frustum_volume_size |-> input_image_size \div (FrustumStride * FrustumStride),
      frustum_volume_depth |-> frustum_volume_depth ]

\* SpatialVolumeNet.__init__
SpatialVolumeNetInit(vn, input_image_size, frustum_volume_depth, spatial_volume_size) ==
    [ encoder_out_dim |-> EncoderOutDim,
      input_dim |-> EncoderOutDim * vn,
      input_image_size |-> input_image_size,
      spatial_volume_size |-> spatial_volume_size,
      frustum_volume_size |-> input_image_size \div FrustumStride,
      frustum_volume_depth |-> frustum_volume_depth ]

\* SyncMultiviewDiffusion._init_multiview: the camera table of view_num views;
\* one intrinsic matrix repeated for every view
InitPoses(vn) == Fill1(vn, LAMBDA n : <<"pose", n>>)
InitKs(vn) == View(Repeat2(Unsqueeze0(Fill1(1, LAMBDA n : <<"K", 0>>)), vn, 1), <<vn>>)
InitAzimuth(vn) == Fill1(vn, LAMBDA n : <<"az", n>>)

\* ------------------------------------------------------------- the batches
\* the tensors a caller hands in: batch `seed` of B elements and N views
Latents(seed, B, N) == Fill2(B, N, LAMBDA b, n : <<"x", seed, b, n>>)
TimeEmbedding(seed, B) == Fill1(B, LAMBDA b : <<"t", seed, b>>)
ViewEmbedding(seed, B, N) == Fill2(B, N, LAMBDA b, n : <<"v", seed, b, n>>)

\* ------------------------------------------------------ the learned networks
\* NoisyTargetViewEncoder.forward on B rows (one view of every batch element):
\* <<B, output_dim>> channels.  Convolutions, GroupNorm and SiLU act on each
\* row of the batch separately, so channel c of row b is read off row b alone.
TargetEncoder(p, xs, ts, vs) ==
    Fill2(xs.shape[1], EncoderOutDim,
          LAMBDA b, c : [p |-> p, x |-> At1(xs, b), t |-> At1(ts, b),
                         v |-> At1(vs, b), c |-> c])

\* get_warp_coordinates: the sampling coordinates of the canonical grid in the
\* image of the camera (K, pose) of each row
GetWarpCoordinates(K_source, pose_source) ==
    Fill1(K_source.shape[1],
          LAMBDA b : [K |-> At1(K_source, b), pose |-> At1(pose_source, b)])

\* F.grid_sample(input, grid): row b of the input read at row b of the grid
GridSample(feats, C, coords) ==
    Fill2(feats.shape[1], C,
          LAMBDA b, c : [f |-> At2(feats, b, c), at |-> At1(coords, b)])

\* (variant: a refinement network that also reads what an earlier call left
\* behind)
SpatialTime3DNetRowsStateful(p, vol, t) ==
    Fill1(vol.shape[1],
          LAMBDA b : [p |-> p,
                      in |-> [c \in 0..(vol.shape[2] - 1) |-> At2(vol, b, c)],
                      t |-> At1(t, b),
                      kept |-> seen_volume.valid])

\* SpatialTime3DNet.forward: the refined volume of each batch element, read off
\* the channels of that element and its timestep embedding
SpatialTime3DNetRows(p, vol, t) ==
    Fill1(vol.shape[1],
          LAMBDA b : [p |-> p,
                      in |-> [c \in 0..(vol.shape[2] - 1) |-> At2(vol, b, c)],
                      t |-> At1(t, b)])

\* result storage of an out-of-place elementwise a + b
AddStore(a, b) == "new"

\* -------------------------------------------- construct_spatial_volume
\* lines 55-59: the per-view copies of the embeddings and of the cameras
\* (variant: the timestep embeddings tiled view-major, t.view(1, B).repeat(N, 1))
TimeEmbedPerViewTiled(t, B, N) == View(Repeat2(View(t, <<1, B>>), N, 1), <<B, N>>)

TimeEmbedPerView(t, B, N) == View(Repeat2(View(t, <<B, 1>>), 1, N), <<B, N>>)
ViewEmbedPerView(v) == v
CamerasPerBatch(table, B) == Repeat2(Unsqueeze0(table), B, 1)

\* (variant: the tensor reshaped in place)
ArgReshapedInPlace(t, shape) == View(t, shape)

\* what the caller's tensor is after t.unsqueeze(0).repeat(...) / t.view(...):
\* both return a new tensor object and leave t as it was
ArgAfterUnsqueeze(t) == t
ArgAfterView(t, shape) == t

\* one iteration of the loop over the source views (lines 65-72)
UnprojectView(p, xx, t, v, target_poses, target_Ks, n) ==
    LET B == xx.shape[1]
        N == xx.shape[2]
        pose_source == SelectCol(CamerasPerBatch(target_poses, B), n)
        K_source == SelectCol(CamerasPerBatch(target_Ks, B), n)
        x_enc == TargetEncoder(p, SelectCol(xx, n),
                               SelectCol(TimeEmbedPerView(t, B, N), n),
                               SelectCol(ViewEmbedPerView(v), n))
        coords_source == GetWarpCoordinates(K_source, pose_source)
    IN  GridSample(x_enc, EncoderOutDim, coords_source)

\* (variant: the views stacked after the channel axis, channel c*N + n)
AggregateViewsInterleaved(list, B, C) ==
    Fill2(B, Len(list) * C,
          LAMBDA b, j : At2(list[(j % Len(list)) + 1], b, j \div Len(list)))

\* lines 75-77: torch.stack(spatial_volume_feats, 1).view(B, N*C, V, V, V)
AggregateViews(list, B, C) ==
    LET stacked == Stack1(list, B, C)
    IN  View(stacked, <<B, stacked.shape[2] * C>>)

\* --------------------------------------- construct_view_frustum_volume
\* create_target_volume: the frustum grid of the camera of each row
CreateTargetVolume(poses_sel, Ks_sel) ==
    Fill1(poses_sel.shape[1],
          LAMBDA r : [pose |-> At1(poses_sel, r), K |-> At1(Ks_sel, r)])

\* (variant: the volumes tiled batch after batch, repeat on axis 0)
VolumePerTargetTiled(rows, TN) ==
    View(Repeat2(Unsqueeze0(rows), TN, 1), <<rows.shape[1] * TN>>)

\* line 107: spatial_volume.unsqueeze(1).repeat(1, TN, ...).view(B * TN, ...)
VolumePerTarget(rows, TN) ==
    View(Repeat2(Unsqueeze1(rows), 1, TN), <<rows.shape[1] * TN>>)

\* line 111: t_embed.unsqueeze(1).repeat(1, TN, 1).view(B * TN, -1)
TimeEmbedPerTarget(t, TN) ==
    View(Repeat2(Unsqueeze1(t), 1, TN), <<t.shape[1] * TN>>)

\* line 110: v_embed[torch.arange(B)[:, None], target_indices.view(B, TN)].view(B * TN, -1)
ViewEmbedPerTarget(v, flat, B, TN) ==
    View(IndexPairs(v, Arange(B), View(flat, <<B, TN>>)), <<B * TN>>)

\* line 108: F.grid_sample(spatial_volume_, volume_xyz_): row r of the volumes
\* read at the grid of row r
GridSample3d(vols, grid) ==
    Fill1(vols.shape[1], LAMBDA r : [vol |-> At1(vols, r), at |-> At1(grid, r)])

\* (variant: a normalisation over the batch, every row reading all rows)
FrustumTV3DNetRowsBatchNorm(p, volume_feats, t, v) ==
    Fill1(volume_feats.shape[1],
          LAMBDA r : [p |-> p, f |-> At1(volume_feats, r),
                      t |-> At1(t, r), v |-> At1(v, r),
                      batch |-> volume_feats.data])

\* FrustumTV3DNet.forward: convolutions, GroupNorm and SiLU act on each row of
\* the batch separately; the four levels of row r are read off row r alone
FrustumTV3DNetRows(p, volume_feats, t, v) ==
    Fill1(volume_feats.shape[1],
          LAMBDA r : [p |-> p, f |-> At1(volume_feats, r),
                      t |-> At1(t, r), v |-> At1(v, r)])

\* level k of the pyramid, row r
LevelRow(fr, k, r) == [level |-> k, row |-> At1(fr.rows, r)]

\* the whole method: what it returns, or the exception it raises
ViewFrustumVolume(p, net, sv, t, v, pos, K, ti) ==
    LET B == ti.shape[1]
        TN == ti.shape[2]
        H == net.frustum_volume_size
        D == net.frustum_volume_depth
        flat == View(ti, <<B * TN>>)
    IN  IF ~(IndexRowsOk(pos, flat) /\ IndexRowsOk(K, flat))
        THEN [err |-> "IndexError", value |-> NoFrustum]
        ELSE
        LET poses_sel == IndexRows(pos, flat)
            Ks_sel == IndexRows(K, flat)
            volume_xyz == CreateTargetVolume(poses_sel, Ks_sel)
            vols == VolumePerTarget(sv.rows, TN)
            volume_feats == GridSample3d(vols, volume_xyz)
            feats_shape == Ok(<<volume_feats.shape[1], sv.shape[2], D, H, H>>)
        IN  IF ~IndexPairsOk(v, Arange(B), View(flat, <<B, TN>>))
            THEN [err |-> "IndexError", value |-> NoFrustum]
            ELSE
            LET v_sel == ViewEmbedPerTarget(v, flat, B, TN)
                t_sel == TimeEmbedPerTarget(t, TN)
                pyramid == FrustumTV3DNetForward(feats_shape, t_sel.shape[1], v_sel.shape[1])
            IN  IF pyramid = <<>>
                THEN [err |-> "RuntimeError", value |-> NoFrustum]
                ELSE [err |-> "none",
                      value |-> [dict |-> pyramid,
                                 rows |-> FrustumTV3DNetRows(p, volume_feats, t_sel, v_sel),
                                 store |-> AddStore("up2", "x0")]]

\* ------------------------------------------------------------------ Init
\* the model as SyncMultiviewDiffusion.__init__ builds it: SpatialVolumeNet is
\* given time_dim, view_dim and view_num only, so it keeps its default sizes
Init ==
    /\ view_num \in 1..MaxViewNum
    /\ svn = SpatialVolumeNetInit(view_num, DefaultInputImageSize,
                                  DefaultFrustumVolumeDepth, DefaultSpatialVolumeSize)
    /\ params = 0
    /\ poses = InitPoses(view_num)
    /\ Ks = InitKs(view_num)
    /\ azimuth = InitAzimuth(view_num)
    /\ pc = "idle"
    /\ err = "none"
    /\ x = EmptyTensor
    /\ t_embed = EmptyTensor
    /\ v_embed = EmptyTensor
    /\ target_indices = EmptyTensor
    /\ ni = 0
    /\ feats_list = <<>>
    /\ spatial_volume = NoVolume
    /\ frustum = NoFrustum
    /\ seen_volume = NoSeen
    /\ seen_row = NoSeen
    /\ shape_call = NoShapeCall

\* --------------------------------------------------------------- actions
\* the optimizer configured by configure_optimizers updates the parameters
\* between two passes
OptimizerStep ==
    /\ pc = "idle"
    /\ params < MaxParams
    /\ params' = params + 1
    /\ UNCHANGED <<view_num, svn, poses, Ks, azimuth, pc, err, x, t_embed, v_embed,
                   target_indices, ni, feats_list, spatial_volume, frustum,
                   seen_volume, seen_row, shape_call>>

\* construct_spatial_volume is entered (lines 45-62)
SpatialBegin ==
    /\ pc = "idle"
    /\ \E B \in 1..MaxB, seed \in 0..MaxSeed :
          /\ x' = Latents(seed, B, view_num)
          /\ t_embed' = TimeEmbedding(seed, B)
          /\ v_embed' = ViewEmbedding(seed, B, view_num)
    /\ ni' = 0
    /\ feats_list' = <<>>
    /\ pc' = "encode"
    /\ UNCHANGED <<view_num, svn, params, poses, Ks, azimuth, err, target_indices,
                   spatial_volume, frustum, seen_volume, seen_row, shape_call>>

\* one iteration of its loop (lines 64-73)
SpatialViewStep ==
    /\ pc = "encode"
    /\ ni < x.shape[2]
    /\ IF ni < poses.shape[1] /\ ni < Ks.shape[1] /\ ni < v_embed.shape[2]
       THEN /\ feats_list' = Append(feats_list,
                                    UnprojectView(params, x, t_embed, v_embed, poses, Ks, ni))
            /\ ni' = ni + 1
            /\ UNCHANGED <<pc, err>>
       ELSE /\ pc' = "raised"
            /\ err' = "IndexError"
            /\ UNCHANGED <<ni, feats_list>>
    /\ poses' = ArgAfterUnsqueeze(poses)
    /\ Ks' = ArgAfterUnsqueeze(Ks)
    /\ t_embed' = ArgAfterView(t_embed, <<t_embed.shape[1], 1>>)
    /\ UNCHANGED <<view_num, svn, params, azimuth, x, v_embed, target_indices,
                   spatial_volume, frustum, seen_volume, seen_row, shape_call>>

\* the shape of what construct_spatial_volume hands to and gets from the
\* refinement network for B batch elements of N views (lines 77-79)
SpatialVolumeTrace(net, B, N) ==
    LET V == net.spatial_volume_size
    IN  SpatialTime3DNetTrace(Ok(<<B, N * net.encoder_out_dim, V, V, V>>), B,
                              net.input_dim, SpatialDims)

\* the refined volume construct_spatial_volume returns (lines 75-80)
SpatialVolumeOf(p, net, list, t) ==
    LET B == t.shape[1]
        vol == AggregateViews(list, B, EncoderOutDim)
        shape == SpatialVolumeTrace(net, B, vol.shape[2] \div EncoderOutDim).out
    IN  IF shape.ok
        THEN [err |-> "none",
              value |-> [shape |-> shape.shape,
                         rows |-> SpatialTime3DNetRows(p, vol, t),
                         store |-> AddStore("conv0", "conv9")]]
        ELSE [err |-> "RuntimeError", value |-> NoVolume]

\* the views are stacked and refined, and the method returns (lines 75-80)
SpatialRefine ==
    /\ pc = "encode"
    /\ ni = x.shape[2]
    /\ LET res == SpatialVolumeOf(params, svn, feats_list, t_embed)
       IN  /\ spatial_volume' = res.value
           /\ err' = res.err
           /\ pc' = IF res.err = "none" THEN "spatial_done" ELSE "raised"
    /\ t_embed' = ArgAfterView(t_embed, <<t_embed.shape[1], 1>>)
    /\ UNCHANGED <<view_num, svn, params, poses, Ks, azimuth, x, v_embed,
                   target_indices, ni, feats_list, frustum, seen_row, shape_call>>

\* the target index matrices a caller may hand in: B rows of TN entries of Idx
TargetIndexMatrices(B, Idx) ==
    UNION { { Tensor(<<B, TN>>, d) : d \in [0..(B * TN - 1) -> Idx] } :
            TN \in { n \in 1..MaxTN : B * n <= MaxRows } }

\* construct_view_frustum_volume is called on the volume just built with a
\* matrix of target view indices
FrustumBegin(Idx) ==
    /\ pc = "spatial_done"
    /\ target_indices' \in TargetIndexMatrices(t_embed.shape[1], Idx)
    /\ pc' = "resample"
    /\ UNCHANGED <<view_num, svn, params, poses, Ks, azimuth, err, x, t_embed, v_embed,
                   ni, feats_list, spatial_volume, frustum, seen_volume, seen_row,
                   shape_call>>

\* construct_view_frustum_volume (lines 92-113)
ViewFrustum ==
    /\ pc = "resample"
    /\ LET res == ViewFrustumVolume(params, svn, spatial_volume, t_embed, v_embed,
                                    poses, Ks, target_indices)
       IN  /\ frustum' = res.value
           /\ err' = res.err
           /\ pc' = IF res.err = "none" THEN "frustum_done" ELSE "raised"
    /\ target_indices' = ArgAfterView(target_indices,
                                      <<target_indices.shape[1] * target_indices.shape[2]>>)
    /\ t_embed' = ArgAfterUnsqueeze(t_embed)
    /\ UNCHANGED <<view_num, svn, params, poses, Ks, azimuth, x, v_embed, ni,
                   feats_list, spatial_volume, seen_volume, seen_row, shape_call>>

\* (variant: a pass that raised is run again on the same batch)
ReturnRetrying ==
    /\ pc \in {"frustum_done", "raised"}
    /\ IF pc = "raised"
       THEN /\ pc' = "encode"
            /\ err' = "none"
            /\ ni' = 0
            /\ feats_list' = <<>>
            /\ UNCHANGED <<x, t_embed, v_embed, target_indices, spatial_volume,
                           frustum, seen_row>>
       ELSE /\ pc' = "idle"
            /\ err' = "none"
            /\ x' = EmptyTensor
            /\ t_embed' = EmptyTensor
            /\ v_embed' = EmptyTensor
            /\ target_indices' = EmptyTensor
            /\ ni' = 0
            /\ feats_list' = <<>>
            /\ spatial_volume' = NoVolume
            /\ frustum' = NoFrustum
            /\ seen_row' = NoSeen
    /\ UNCHANGED <<view_num, svn, params, poses, Ks, azimuth, seen_volume, shape_call>>

\* the pass returns to its caller, or its exception propagates to it
Return ==
    /\ pc \in {"frustum_done", "raised"}
    /\ pc' = "idle"
    /\ err' = "none"
    /\ x' = EmptyTensor
    /\ t_embed' = EmptyTensor
    /\ v_embed' = EmptyTensor
    /\ target_indices' = EmptyTensor
    /\ ni' = 0
    /\ feats_list' = <<>>
    /\ spatial_volume' = NoVolume
    /\ frustum' = NoFrustum
    /\ seen_row' = NoSeen
    /\ UNCHANGED <<view_num, svn, params, poses, Ks, azimuth, seen_volume, shape_call>>

\* construct_spatial_volume of a SpatialVolumeNet built for N views with
\* spatial_volume_size V, on a batch of B elements of N views
ShapeSpatial ==
    /\ shape_call = NoShapeCall
    /\ \E B \in 1..MaxB, N \in 1..MaxViewNum, V \in 1..MaxSize :
          LET net == SpatialVolumeNetInit(N, DefaultInputImageSize,
                                          DefaultFrustumVolumeDepth, V)
          IN  shape_call' = [net |-> "spatial", B |-> B, N |-> N, V |-> V,
                             trace |-> SpatialVolumeTrace(net, B, N)]
    /\ UNCHANGED <<view_num, svn, params, poses, Ks, azimuth, pc, err, x, t_embed,
                   v_embed, target_indices, ni, feats_list, spatial_volume, frustum,
                   seen_volume, seen_row>>

\* FrustumTV3DNet.forward on the frustum volume of B*TN rows, depth d and
\* height = width = w
ShapeFrustum ==
    /\ shape_call = NoShapeCall
    /\ \E B \in 1..MaxB, TN \in 1..MaxTN, d \in 1..MaxSize, w \in 1..MaxSize :
          shape_call' = [net |-> "frustum", B |-> B, TN |-> TN, d |-> d, w |-> w,
                         dict |-> FrustumTV3DNetForward(
                                      Ok(<<B * TN, FrustumInDim, d, w, w>>), B * TN, B * TN)]
    /\ UNCHANGED <<view_num, svn, params, poses, Ks, azimuth, pc, err, x, t_embed,
                   v_embed, target_indices, ni, feats_list, spatial_volume, frustum,
                   seen_volume, seen_row>>

\* the caller drops what the call returned
ShapeDone ==
    /\ shape_call # NoShapeCall
    /\ shape_call' = NoShapeCall
    /\ UNCHANGED <<view_num, svn, params, poses, Ks, azimuth, pc, err, x, t_embed,
                   v_embed, target_indices, ni, feats_list, spatial_volume, frustum,
                   seen_volume, seen_row>>

ShapeNext == ShapeSpatial \/ ShapeFrustum \/ ShapeDone

ShapeSpec == Init /\ [][ShapeNext]_vars

\* the levels of row r of the pyramid fr: key -> (level, features of the row,
\* size of one row)
PyramidRow(fr, r) ==
    [k \in DOMAIN fr.dict |->
        [feat |-> LevelRow(fr, fr.dict[k].level, r),
         size |-> SubSeq(fr.dict[k].shape, 2, 5)]]

\* a caller keeps the volume construct_spatial_volume returned to it, with the
\* arguments and the parameters of the call
RememberVolume ==
    /\ pc = "spatial_done"
    /\ seen_volume' = [valid |-> TRUE, x |-> x, t_embed |-> t_embed, v_embed |-> v_embed,
                       poses |-> poses, Ks |-> Ks, params |-> params,
                       value |-> spatial_volume, others |-> 0]
    /\ UNCHANGED <<view_num, svn, params, poses, Ks, azimuth, pc, err, x, t_embed,
                   v_embed, target_indices, ni, feats_list, spatial_volume, frustum,
                   seen_row, shape_call>>

\* construct_spatial_volume was given the arguments of the remembered call
SameSpatialCall ==
    /\ seen_volume.valid
    /\ seen_volume.x = x /\ seen_volume.t_embed = t_embed /\ seen_volume.v_embed = v_embed
    /\ seen_volume.poses = poses /\ seen_volume.Ks = Ks
    /\ seen_volume.params = params

\* as SpatialRefine, counting the calls with other arguments made since the
\* remembered one
SpatialRefineCounted ==
    /\ SpatialRefine
    /\ seen_volume' = IF seen_volume.valid /\ ~SameSpatialCall /\ seen_volume.others < MaxBumps
                      THEN [seen_volume EXCEPT !.others = @ + 1]
                      ELSE seen_volume

\* the first resampling of a pass asks for one target view per batch element,
\* as training_step does
FrustumOneView(Idx) ==
    /\ FrustumBegin(Idx)
    /\ target_indices'.shape[2] = 1

\* a caller keeps one row of the pyramid returned to it, with the batch element
\* and the view it asked the row for
RememberRow ==
    /\ pc = "frustum_done"
    /\ ~seen_row.valid
    /\ \E r \in DOMAIN frustum.rows.data :
          seen_row' = [valid |-> TRUE,
                       b |-> r \div target_indices.shape[2],
                       n |-> At1(View(target_indices, <<Prod(target_indices.shape)>>), r),
                       TN |-> target_indices.shape[2],
                       levels |-> PyramidRow(frustum, r)]
    /\ UNCHANGED <<view_num, svn, params, poses, Ks, azimuth, pc, err, x, t_embed,
                   v_embed, target_indices, ni, feats_list, spatial_volume, frustum,
                   seen_volume, shape_call>>

\* the volume is resampled once more, for another matrix of target indices
\* (as a sampler does when it asks for the views a few at a time)
FrustumAgain(Idx) ==
    /\ pc = "frustum_done"
    /\ seen_row.valid
    /\ target_indices' \in TargetIndexMatrices(t_embed.shape[1], Idx)
    /\ frustum' = NoFrustum
    /\ pc' = "resample"
    /\ UNCHANGED <<view_num, svn, params, poses, Ks, azimuth, err, x, t_embed, v_embed,
                   ni, feats_list, spatial_volume, seen_volume, seen_row, shape_call>>

ValidIndex == 0..(view_num - 1)

\* one pass, its volume resampled several times
RepeatNext ==
    \/ SpatialBegin
    \/ SpatialViewStep
    \/ (SpatialRefine /\ UNCHANGED seen_volume)
    \/ FrustumOneView(ValidIndex)
    \/ ViewFrustum
    \/ RememberRow
    \/ FrustumAgain(ValidIndex)
    \/ Return

RepeatSpec == Init /\ [][RepeatNext]_vars

\* passes following one another, the volume of one of them remembered
RecallNext ==
    \/ OptimizerStep
    \/ SpatialBegin
    \/ SpatialViewStep
    \/ SpatialRefineCounted
    \/ RememberVolume
    \/ FrustumBegin({0})
    \/ ViewFrustum
    \/ Return

RecallSpec == Init /\ [][RecallNext]_vars

\* the target view indices of a pass: any integer near [0, N)
AnyIndex == (-(view_num + 1))..view_num

Next ==
    \/ OptimizerStep
    \/ SpatialBegin
    \/ SpatialViewStep
    \/ (SpatialRefine /\ UNCHANGED seen_volume)
    \/ FrustumBegin(AnyIndex)
    \/ ViewFrustum
    \/ Return

Spec == Init /\ [][Next]_vars

\* --------------------------------------------------------- training_step
\* (variant: the denoising network invoked once for every source view)
DenoisePerView ==
    /\ pc = "frustum_done"
    /\ shape_call' = [net |-> "unet", count |-> x.shape[2], volume_feats |-> frustum]
    /\ pc' = "denoised"
    /\ UNCHANGED <<view_num, svn, params, poses, Ks, azimuth, err, x, t_embed, v_embed,
                   target_indices, ni, feats_list, spatial_volume, frustum,
                   seen_volume, seen_row>>

\* training_step line 337: self.model, the denoising network, is invoked on
\* the pyramid get_target_view_feats returned
Denoise ==
    /\ pc = "frustum_done"
    /\ shape_call' = [net |-> "unet", count |-> 1, volume_feats |-> frustum]
    /\ pc' = "denoised"
    /\ UNCHANGED <<view_num, svn, params, poses, Ks, azimuth, err, x, t_embed, v_embed,
                   target_indices, ni, feats_list, spatial_volume, frustum,
                   seen_volume, seen_row>>

\* training_step returns its loss, or the exception of a stage propagates
TrainReturn ==
    /\ pc \in {"denoised", "raised"}
    /\ pc' = "idle"
    /\ err' = "none"
    /\ x' = EmptyTensor
    /\ t_embed' = EmptyTensor
    /\ v_embed' = EmptyTensor
    /\ target_indices' = EmptyTensor
    /\ ni' = 0
    /\ feats_list' = <<>>
    /\ spatial_volume' = NoVolume
    /\ frustum' = NoFrustum
    /\ shape_call' = NoShapeCall
    /\ UNCHANGED <<view_num, svn, params, poses, Ks, azimuth, seen_volume, seen_row>>

\* the training steps: one target view per batch element, drawn from [0, N)
TrainNext ==
    \/ OptimizerStep
    \/ SpatialBegin
    \/ SpatialViewStep
    \/ (SpatialRefine /\ UNCHANGED seen_volume)
    \/ FrustumOneView(ValidIndex)
    \/ ViewFrustum
    \/ Denoise
    \/ TrainReturn

TrainSpec == Init /\ [][TrainNext]_vars

\* ------------------------------------------------------- single calls
\* what a single call of a function of the program leaves alone
CallFrame ==
    UNCHANGED <<view_num, svn, params, poses, Ks, azimuth, pc, err, x, t_embed,
                v_embed, target_indices, ni, feats_list, spatial_volume, frustum,
                seen_volume, seen_row>>

\* F.grid_sample(input, grid, mode='bilinear', padding_mode='zeros',
\* align_corners=True). A normalised coordinate is c / CoordDen; along an axis
\* of n cells it addresses the position (c / CoordDen + 1) / 2 * (n - 1), kept
\* as the numerator PixelNum over the denominator PixelDen.
PixelDen == 2 * CoordDen
PixelNum(c, n) == (c + CoordDen) * (n - 1)
CoordRange == (-(3 * CoordDen + 1))..(3 * CoordDen + 1)

\* the two cells next to the position along one axis, with their weights
\* (times PixelDen)
AxisTaps(c, n) ==
    LET i0 == PixelNum(c, n) \div PixelDen
        fr == PixelNum(c, n) % PixelDen
    IN  << [cell |-> i0, weight |-> PixelDen - fr],
           [cell |-> i0 + 1, weight |-> fr] >>

\* the features of all channels being 0
ZeroFeature == [ch \in 1..SampleChannels |-> 0]

\* (variant: padding_mode='border', a cell outside the grid read at the border)
PaddedCellBorder(vol, n, idx) ==
    vol[[a \in DOMAIN idx |-> IF idx[a] < 0 THEN 0
                              ELSE IF idx[a] >= n THEN n - 1 ELSE idx[a]]]

\* padding_mode='zeros': a cell outside the grid contributes zeros
PaddedCell(vol, n, idx) ==
    IF \A a \in DOMAIN idx : 0 <= idx[a] /\ idx[a] < n THEN vol[idx] ELSE ZeroFeature

\* the interpolation, axis after axis: idx holds the cells chosen so far; the
\* value is the weighted sum over the 2^rank cells around the position, times
\* PixelDen^rank
RECURSIVE SampleAxes(_, _, _, _, _)
SampleAxes(vol, n, coords, idx, ch) ==
    IF Len(idx) = Len(coords)
    THEN PaddedCell(vol, n, idx)[ch]
    ELSE LET taps == AxisTaps(coords[Len(idx) + 1], n)
         IN  taps[1].weight * SampleAxes(vol, n, coords, Append(idx, taps[1].cell), ch)
           + taps[2].weight * SampleAxes(vol, n, coords, Append(idx, taps[2].cell), ch)

\* the feature vector sampled at one grid location
GridSampleAt(vol, n, coords) ==
    [ch \in 1..SampleChannels |-> SampleAxes(vol, n, coords, <<>>, ch)]

\* the sampled grids of the model: n cells along each of rank axes, every
\* cell a feature vector; one grid with the same nonzero feature everywhere
\* and the grids with that feature in one corner cell only
Cells(rank, n) == [1..rank -> 0..(n - 1)]
FeatureOne == [ch \in 1..SampleChannels |-> ch]
SampledGrids(rank, n) ==
    { [idx \in Cells(rank, n) |-> FeatureOne] }
        \cup { [idx \in Cells(rank, n) |->
                   IF \A a \in 1..rank : idx[a] = corner THEN FeatureOne ELSE ZeroFeature]
               : corner \in {0, n - 1} }

\* one location of F.grid_sample of a grid of the given rank
GridSampleCall(kind, rank) ==
    /\ shape_call = NoShapeCall
    /\ \E n \in 2..MaxGrid, coords \in [1..rank -> CoordRange] :
          \E vol \in SampledGrids(rank, n) :
             shape_call' = [net |-> kind, rank |-> rank, n |-> n, coords |-> coords,
                            vol |-> vol, out |-> GridSampleAt(vol, n, coords)]
    /\ CallFrame

\* construct_spatial_volume line 71: the feature map of a view sampled at the
\* projection of a voxel
UnprojectSample == GridSampleCall("grid_sample_2d", 2)

\* construct_view_frustum_volume line 108: the spatial volume sampled at a
\* point of a frustum grid
FrustumSample == GridSampleCall("grid_sample_3d", 3)

\* ---------------------------------------------- angles and viewpoints
\* Angles are kept in degrees and are multiples of 30 degrees, the magnitude
\* of the target elevation. The sine of such an angle is (a + b * sqrt(3)) / 2
\* for a pair <<a, b>> of integers, which stands for it here.
SinTable ==
    << <<0, 0>>, <<1, 0>>, <<0, 1>>, <<2, 0>>, <<0, 1>>, <<1, 0>>,
       <<0, 0>>, <<-1, 0>>, <<0, -1>>, <<-2, 0>>, <<0, -1>>, <<-1, 0>> >>
Sin(deg) == SinTable[((deg \div TargetElevationDeg) % Len(SinTable)) + 1]
Cos(deg) == Sin(deg + HalfTurnDeg \div 2)

\* the azimuths a camera file may hold
LoadedAzimuths == { k * TargetElevationDeg : k \in (-MaxAngleK)..MaxAngleK }

\* (variant: the azimuths reduced to one turn without the shift by pi)
NormalizeAzimuthUnshifted(az) == az % (HalfTurnDeg * 2)

\* _init_multiview line 174: (azs + np.pi) % (np.pi * 2) - np.pi
NormalizeAzimuth(az) == ((az + HalfTurnDeg) % (HalfTurnDeg * 2)) - HalfTurnDeg

\* the azimuth buffer registered for a loaded table of azimuths
AzimuthBuffer(azs) == Fill1(azs.shape[1], LAMBDA n : NormalizeAzimuth(At1(azs, n)))

\* _init_multiview on a camera file of N views
InitMultiviewCall ==
    /\ shape_call = NoShapeCall
    /\ \E N \in 1..MaxViewNum :
          \E loaded \in [0..(N - 1) -> LoadedAzimuths] :
             shape_call' = [net |-> "init_multiview", N |-> N,
                            azs |-> Tensor(<<N>>, loaded),
                            azimuth |-> AzimuthBuffer(Tensor(<<N>>, loaded))]
    /\ CallFrame

\* torch.stack(list, -1) of four tensors of shape <<B, N>>: <<B, N, 4>>
StackLast(list) ==
    LET n == Len(list)
        sh == list[1].shape
    IN  Tensor(<<sh[1], sh[2], n>>,
               [i \in 0..(sh[1] * sh[2] * n - 1) |-> list[(i % n) + 1].data[i \div n]])

\* (variant: the azimuth of a view taken as it is stored)
AbsoluteAzimuth(azimuth_target, azimuth_input) == azimuth_target

\* line 193: d_a = azimuth_target - azimuth_input, a tensor of one element
\* broadcast against the N azimuths
RelativeAzimuth(azimuth_target, azimuth_input) ==
    Fill1(azimuth_target.shape[1],
          LAMBDA n : At1(azimuth_target, n) - At1(azimuth_input, 0))

\* (variant: the elevation differences laid out view after view)
ElevationPerViewTransposed(d_e, N) ==
    View(Repeat2(Unsqueeze0(d_e), N, 1), <<d_e.shape[1], N>>)

\* line 192: d_e.unsqueeze(1).repeat(1, N)
ElevationPerView(d_e, N) == Repeat2(Unsqueeze1(d_e), 1, N)

\* elementwise map of a tensor
MapTensor(t, F(_)) == Tensor(t.shape, [i \in DOMAIN t.data |-> F(t.data[i])])

\* get_viewpoint_embedding(batch_size, elevation_ref) with the azimuth buffer
\* azimuth_buf: the embedding, or the failure of torch.stack on unequal shapes
GetViewpointEmbedding(azimuth_buf, batch_size, elevation_ref) ==
    LET azimuth_input == Fill1(1, LAMBDA i : At1(azimuth_buf, 0))
        azimuth_target == azimuth_buf
        elevation_input == MapTensor(elevation_ref, LAMBDA e : -e)
        elevation_target == -TargetElevationDeg
        d_e0 == MapTensor(elevation_input, LAMBDA e : elevation_target - e)
        N == azimuth_buf.shape[1]
        B == batch_size
        d_e == ElevationPerView(d_e0, N)
        d_a0 == RelativeAzimuth(azimuth_target, azimuth_input)
        d_a == Repeat2(Unsqueeze0(d_a0), B, 1)
        d_z == MapTensor(d_a, LAMBDA a : 0)
    IN  IF d_e.shape = d_a.shape
        THEN [err |-> "none",
              value |-> StackLast(<<d_e, MapTensor(d_a, Sin), MapTensor(d_a, Cos), d_z>>)]
        ELSE [err |-> "RuntimeError", value |-> EmptyTensor]

\* the camera files and the reference elevations of the embedding calls
EmbedAzimuths == {0, 30, 180, 270, 390}
ElevationRefs == {0, 30, 60}

\* get_viewpoint_embedding on a model built from a camera file of N views
ViewpointEmbeddingCall ==
    /\ shape_call = NoShapeCall
    /\ \E N \in 1..MaxViewNum, B \in 1..MaxB, Bref \in 1..MaxB :
          \E loaded \in [0..(N - 1) -> EmbedAzimuths],
             elev \in [0..(Bref - 1) -> ElevationRefs] :
             LET buf == AzimuthBuffer(Tensor(<<N>>, loaded))
                 res == GetViewpointEmbedding(buf, B, Tensor(<<Bref>>, elev))
             IN  shape_call' = [net |-> "viewpoint_embedding", N |-> N, B |-> B,
                                azimuth |-> buf,
                                elevation_ref |-> Tensor(<<Bref>>, elev),
                                err |-> res.err, embedding |-> res.value]
    /\ CallFrame

\* ------------------------------------------- SyncMultiviewDiffusion.__init__
\* the image sizes a model may be configured with
ImageSizes == { k * LatentStride * LatentStride : k \in 1..MaxImageK }

\* _init_multiview lines 166-170: the intrinsics of the camera file, which
\* are those of images of default_image_size pixels, scaled by
\* ratio = image_size / default_image_size and repeated for every view; the
\* focal length of the file times num / den
ScaledIntrinsics(image_size, vn) ==
    Fill1(vn, LAMBDA n : [K |-> <<"K", 0>>, num |-> image_size, den |-> DefaultImageSize])

\* the image size whose pixels the intrinsics K measure
IntrinsicsImageSize(K) == (DefaultImageSize * K.num) \div K.den

\* SyncMultiviewDiffusion.__init__(view_num=vn, image_size=image_size):
\* line 145 builds the SpatialVolumeNet from time_dim, view_dim and view_num
ConstructCall ==
    /\ shape_call = NoShapeCall
    /\ \E vn \in 1..MaxViewNum, image_size \in ImageSizes :
          shape_call' = [net |-> "construct", view_num |-> vn, image_size |-> image_size,
                         Ks |-> ScaledIntrinsics(image_size, vn),
                         svn |-> SpatialVolumeNetInit(vn, DefaultInputImageSize,
                                                      DefaultFrustumVolumeDepth,
                                                      DefaultSpatialVolumeSize),
                         latent_size |-> image_size \div LatentStride]
    /\ CallFrame

\* ------------------------------------------ the frustum's depth samples
\* lengths in units of 1e-5: default_origin_depth = 1.5 (line 34) and
\* frustum_volume_length = 0.86603 (line 18)
DefaultOriginDepth == 150000
FrustumVolumeLength == 86603

\* the cells of a (rows, 1, H, W) tensor, H = W = size
PlaneCells(rows, size) == (0..(rows - 1)) \X (0..(size - 1)) \X (0..(size - 1))

\* line 97: near = ones(B*TN, 1, H, W) * default_origin_depth - frustum_volume_length
NearPlane(rows, size) ==
    [c \in PlaneCells(rows, size) |-> 1 * DefaultOriginDepth - FrustumVolumeLength]

\* (variant: the far plane built with the sign of the near plane)
FarPlaneSubtracted(rows, size) ==
    [c \in PlaneCells(rows, size) |-> 1 * DefaultOriginDepth - FrustumVolumeLength]

\* line 98: far = ones(B*TN, 1, H, W) * default_origin_depth + frustum_volume_length
FarPlane(rows, size) ==
    [c \in PlaneCells(rows, size) |-> 1 * DefaultOriginDepth + FrustumVolumeLength]

\* create_target_volume (helper outside the sources): D depth samples per
\* pixel, linearly spaced from near to far with both ends included.  Sample
\* d of cell c is DepthValues(...)[<<c[1], d, c[2], c[3]>>] / (D - 1).
DepthValues(D, rows, size, near, far) ==
    [c \in (0..(rows - 1)) \X (0..(D - 1)) \X (0..(size - 1)) \X (0..(size - 1)) |->
        LET p == <<c[1], c[3], c[4]>>
        IN  near[p] * (D - 1) + c[2] * (far[p] - near[p])]

\* the depths D the frustum is built with: small ones and the default
FrustumDepths == (2..MaxDepth) \cup {DefaultFrustumVolumeDepth}

\* construct_view_frustum_volume lines 92-103, for B*TN = rows requested
\* views, frustum_volume_size = size and frustum_volume_depth = D
DepthCall ==
    /\ shape_call = NoShapeCall
    /\ \E rows \in 1..(MaxB * MaxTN), size \in 1..MaxGrid, D \in FrustumDepths :
          LET near == NearPlane(rows, size)
              far == FarPlane(rows, size)
          IN  shape_call' = [net |-> "create_target_volume", rows |-> rows,
                             size |-> size, D |-> D, near |-> near, far |-> far,
                             volume_depth |-> DepthValues(D, rows, size, near, far)]
    /\ CallFrame

\* ------------------------------------------------- the per-view encoder
\* NoisyTargetViewEncoder.__init__: run_dim=16, output_dim=8, and the 4
\* channels init_conv expects
RunDim == 16
DefaultOutputDim == 8
LatentChannels == 4

\* elementwise a + b of two 4-d tensors <<B, C, H, W>>
AddShape2d(a, b) ==
    IF a.ok /\ b.ok /\ (\A i \in 1..4 : BroadcastOk(a.shape[i], b.shape[i]))
    THEN Ok([i \in 1..4 |-> BroadcastDim(a.shape[i], b.shape[i])])
    ELSE ShapeError

\* (variant: the convolutions built without padding)
Conv2dShapeNoPad(xs, cin, cout, k, s, p) ==
    IF xs.ok /\ xs.shape[2] = cin /\ (\A i \in 3..4 : xs.shape[i] >= k)
    THEN Ok(<<xs.shape[1], cout, ConvOut(xs.shape[3], k, s, 0),
              ConvOut(xs.shape[4], k, s, 0)>>)
    ELSE ShapeError

\* nn.Conv2d(cin, cout, k, stride, padding)
Conv2dShape(xs, cin, cout, k, s, p) ==
    IF xs.ok /\ xs.shape[2] = cin /\ (\A i \in 3..4 : xs.shape[i] + 2 * p >= k)
    THEN Ok(<<xs.shape[1], cout, ConvOut(xs.shape[3], k, s, p),
              ConvOut(xs.shape[4], k, s, p)>>)
    ELSE ShapeError

\* Image2DResBlockWithTV.forward:
\* x + self.conv(x + self.time_embed(t) + self.view_embed(v))
Image2DResBlockShape(xs, ts, vs, dim, tdim, vdim) ==
    LET te == Conv2dShape(ts, tdim, dim, 1, 1, 0)
        ve == Conv2dShape(vs, vdim, dim, 1, 1, 0)
        h0 == AddShape2d(AddShape2d(xs, te), ve)
        h1 == Conv2dShape(NormActShape(h0, dim), dim, dim, 3, 1, 1)
        h2 == Conv2dShape(NormActShape(h1, dim), dim, dim, 3, 1, 1)
    IN  AddShape2d(xs, h2)

\* NoisyTargetViewEncoder.forward on x of shape xs, t of shape <<B, DT>> and
\* v of shape <<B, DV>>: what init_conv, the three residual blocks and
\* final_out return
EncoderTrace(xs, tshape, vshape, tdim, vdim, output_dim) ==
    LET ts == Ok(<<tshape[1], tshape[2], 1, 1>>)
        vs == Ok(<<vshape[1], vshape[2], 1, 1>>)
        x0 == Conv2dShape(Ok(xs), LatentChannels, RunDim, 3, 1, 1)
        x1 == Image2DResBlockShape(x0, ts, vs, RunDim, tdim, vdim)
        x2 == Image2DResBlockShape(x1, ts, vs, RunDim, tdim, vdim)
        x3 == Image2DResBlockShape(x2, ts, vs, RunDim, tdim, vdim)
        x4 == Conv2dShape(NormActShape(x3, RunDim), RunDim, output_dim, 3, 1, 1)
    IN  <<x0, x1, x2, x3, x4>>

\* the channel counts of the images given to the encoder, the widths of the
\* two embeddings and the output widths it is built with
ImageChannels == {LatentChannels - 1, LatentChannels}
EmbedDims == 1..2
OutputDims == {DefaultOutputDim, EncoderOutDim}

\* NoisyTargetViewEncoder(tdim, vdim, output_dim=output_dim).forward(x, t, v)
EncoderCall ==
    /\ shape_call = NoShapeCall
    /\ \E B \in 1..MaxB, C \in ImageChannels, H \in 1..MaxImage, W \in 1..MaxImage,
          tdim \in EmbedDims, vdim \in EmbedDims, output_dim \in OutputDims :
          LET trace == EncoderTrace(<<B, C, H, W>>, <<B, tdim>>, <<B, vdim>>,
                                    tdim, vdim, output_dim)
          IN  shape_call' = [net |-> "encoder", x |-> <<B, C, H, W>>,
                             output_dim |-> output_dim, trace |-> trace,
                             out |-> trace[5]]
    /\ CallFrame

\* ---------------------------------------------------- the canonical grid
\* spatial_volume_length = 0.5 (line 17), in units of 1e-5 like the other lengths
SpatialVolumeLength == 50000

\* a length or coordinate num / den, den > 0
Frac(num, den) == [num |-> num, den |-> den]
\* q / d for a positive integer d
FracDiv(q, d) == IF q.num % d = 0 THEN Frac(q.num \div d, q.den)
                 ELSE Frac(q.num, q.den * d)
FracLeq(a, b) == a.num * b.den <= b.num * a.den
FracEq(a, b) == a.num * b.den = b.num * a.den

\* (variant: V steps of 2L / V, the end point left out)
LinspaceOpen(lo, hi, steps) ==
    [i \in 0..(steps - 1) |-> Frac(lo * steps + i * (hi - lo), steps)]

\* torch.linspace(lo, hi, steps), steps >= 2: element i is
\* lo + i * (hi - lo) / (steps - 1)
Linspace(lo, hi, steps) ==
    [i \in 0..(steps - 1) |-> Frac(lo * (steps - 1) + i * (hi - lo), steps - 1)]

\* the indices <<i, j, k>> of a V x V x V tensor and their row-major position
Voxels(V) == Cells(3, V)
FlatIndex(idx, V) == (idx[1] * V + idx[2]) * V + idx[3]
Unflatten(q, V) == <<q \div (V * V), (q \div V) % V, q % V>>

\* torch.stack(torch.meshgrid(v, v, v), -1): element <<i, j, k>> is
\* (v[i], v[j], v[k])
MeshgridStacked(v, V) == [idx \in Voxels(V) |-> <<v[idx[1]], v[idx[2]], v[idx[3]]>>]

\* (variant: the three components left in meshgrid order)
ReorderComponentsKept(pt) == pt

\* [:, :, (2, 1, 0)]: the three components of a point reversed
ReorderComponents(pt) == <<pt[3], pt[2], pt[1]>>

\* lines 49-52: spatial_volume_verts of shape (B, 3, V, V, V); [b][c][idx] is
\* component c of the world point of voxel idx of batch element b
SpatialVolumeVerts(B, V) ==
    LET verts == Linspace(-SpatialVolumeLength, SpatialVolumeLength, V)
        grid == MeshgridStacked(verts, V)
        rows == [q \in 0..(V * V * V - 1) |-> ReorderComponents(grid[Unflatten(q, V)])]
        one == [c \in 1..3 |-> [idx \in Voxels(V) |-> rows[FlatIndex(idx, V)][c]]]
    IN  [b \in 0..(B - 1) |-> one]

\* the world point (x, y, z) of voxel idx
WorldPoint(verts, b, idx) == <<verts[b][1][idx], verts[b][2][idx], verts[b][3][idx]>>

\* F.grid_sample on a (D, H, W) volume with align_corners=True: the position
\* along an axis of n cells addressed by the normalised coordinate c,
\* (c + 1) / 2 * (n - 1)
AxisPosition(c, n) == Frac((c.num + c.den) * (n - 1), 2 * c.den)
Floor(q) == q.num \div q.den
AxisTapsAt(c, n) ==
    LET pos == AxisPosition(c, n)
    IN  << [cell |-> Floor(pos), weight |-> pos.den - (pos.num % pos.den), of |-> pos.den],
           [cell |-> Floor(pos) + 1, weight |-> pos.num % pos.den, of |-> pos.den] >>

\* the eight cells around a grid location (x, y, z) with their weights:
\* x addresses the last axis (W), y the middle one (H), z the first (D)
VolumeTaps(V, xyz) ==
    LET tx == AxisTapsAt(xyz[1], V)
        ty == AxisTapsAt(xyz[2], V)
        tz == AxisTapsAt(xyz[3], V)
    IN  { [cell |-> <<tz[a].cell, ty[b].cell, tx[c].cell>>,
           weight |-> tz[a].weight * ty[b].weight * tx[c].weight,
           of |-> tz[a].of * ty[b].of * tx[c].of] : a \in 1..2, b \in 1..2, c \in 1..2 }

\* a volume whose voxels all hold different, nonzero features
LabelledVolume(V) ==
    [idx \in Voxels(V) |-> [ch \in 1..SampleChannels |-> ch + SampleChannels * FlatIndex(idx, V)]]

RECURSIVE SumTaps(_, _, _, _)
SumTaps(taps, vol, V, ch) ==
    IF taps = {} THEN 0
    ELSE LET tap == CHOOSE u \in taps : TRUE
         IN  tap.weight * PaddedCell(vol, V, tap.cell)[ch]
               + SumTaps(taps \ {tap}, vol, V, ch)

\* the canonical grid of one call of construct_spatial_volume
GridCall ==
    /\ shape_call = NoShapeCall
    /\ \E B \in 1..MaxB, V \in 2..MaxVox, seed \in 0..MaxSeed :
          shape_call' = [net |-> "canonical_grid", B |-> B, V |-> V, seed |-> seed,
                         verts |-> SpatialVolumeVerts(B, V)]
    /\ CallFrame

\* lines 105-108 applied to the world point of voxel idx of the canonical
\* grid: the point divided by spatial_volume_length and the volume sampled
\* there
ResampleVoxelCall ==
    /\ shape_call = NoShapeCall
    /\ \E V \in 2..MaxVox :
          \E idx \in Voxels(V) :
             LET world == WorldPoint(SpatialVolumeVerts(1, V), 0, idx)
                 xyz == [c \in 1..3 |-> FracDiv(world[c], SpatialVolumeLength)]
                 taps == VolumeTaps(V, xyz)
                 vol == LabelledVolume(V)
             IN  shape_call' = [net |-> "resample_voxel", V |-> V, voxel |-> idx,
                                world |-> world, xyz |-> xyz, taps |-> taps,
                                vol |-> vol,
                                out |-> [ch \in 1..SampleChannels |->
                                            SumTaps(taps, vol, V, ch)]]
    /\ CallFrame

\* ------------------------------------- the conditioning of the denoiser
\* what prepare and add_noise hand to the step: the CLIP embedding and the
\* latent of the input image of every batch element, and the noisy latent
\* and the noise of every view
ClipEmbedding(seed, B) == Fill1(B, LAMBDA b : <<"clip", seed, b>>)
InputLatent(seed, B) == Fill1(B, LAMBDA b : <<"x_input", seed, b>>)
NoisyLatents(seed, B, N) == Fill2(B, N, LAMBDA b, n : <<"x_noisy", seed, b, n>>)
Noise(seed, B, N) == Fill2(B, N, LAMBDA b, n : <<"noise", seed, b, n>>)

\* (variant: the rows tiled batch after batch, repeat on axis 0)
RowsPerTargetTiled(t, TN) ==
    View(Repeat2(Unsqueeze0(t), TN, 1), <<t.shape[1] * TN>>)

\* lines 313 and 316: t.unsqueeze(1).repeat(1, TN, ...).view(B * TN, ...)
RowsPerTarget(t, TN) ==
    View(Repeat2(Unsqueeze1(t), 1, TN), <<t.shape[1] * TN>>)

\* line 312: v_embed[torch.arange(B)[:, None], target_index].view(B * TN, v_dim)
ViewEmbedOfTargets(v, target_index) ==
    View(IndexPairs(v, Arange(target_index.shape[1]), target_index),
         <<target_index.shape[1] * target_index.shape[2]>>)

\* line 314: cc_projection(torch.cat([clip_embed_, v_embed_.unsqueeze(1)], -1)),
\* a linear layer on the last axis: row r is computed from row r of both
CcProjection(p, clip_rows, v_rows) ==
    Fill1(clip_rows.shape[1],
          LAMBDA r : [p |-> p, clip |-> At1(clip_rows, r), v |-> At1(v_rows, r)])

\* lines 336 and 339: t[torch.arange(B)[:, None], target_index][:, 0]
SelectTargetView(t, target_index) ==
    SelectCol(IndexPairs(t, Arange(target_index.shape[1]), target_index), 0)

\* get_target_view_feats lines 310-318 for a B x TN matrix of indices in
\* [0, N), next to the viewpoint rows the frustum resampler selects (line 110)
TargetViewFeatsCall ==
    /\ shape_call = NoShapeCall
    /\ \E B \in 1..MaxB, N \in 1..MaxViewNum, seed \in 0..MaxSeed :
          \E target_index \in TargetIndexMatrices(B, 0..(N - 1)) :
             LET TN == target_index.shape[2]
                 v == ViewEmbedding(seed, B, N)
                 v_sel == ViewEmbedOfTargets(v, target_index)
                 clip_rows == RowsPerTarget(ClipEmbedding(seed, B), TN)
             IN  shape_call' = [net |-> "target_view_feats", B |-> B, N |-> N,
                                seed |-> seed, target_index |-> target_index,
                                clip_embed |-> CcProjection(params, clip_rows, v_sel),
                                x_concat |-> RowsPerTarget(InputLatent(seed, B), TN),
                                frustum_v |-> ViewEmbedPerTarget(v,
                                                 View(target_index, <<B * TN>>), B, TN)]
    /\ CallFrame

\* training_step lines 328, 336 and 339: one target view per batch element,
\* its noisy latent given to the denoising network and its noise kept as the
\* target of the loss
NoisyTargetCall ==
    /\ shape_call = NoShapeCall
    /\ \E B \in 1..MaxB, N \in 1..MaxViewNum, seed \in 0..MaxSeed :
          \E d \in [0..(B - 1) -> 0..(N - 1)] :
             LET target_index == Tensor(<<B, 1>>, d)
             IN  shape_call' = [net |-> "noisy_target", B |-> B, N |-> N,
                                seed |-> seed, target_index |-> target_index,
                                x_noisy |-> SelectTargetView(NoisyLatents(seed, B, N),
                                                             target_index),
                                noise_target |-> SelectTargetView(Noise(seed, B, N),
                                                                  target_index)]
    /\ CallFrame

\* FrustumTV3DNet.forward on a frustum volume of depth d and width w: the
\* dict it returns (<<>> when it raises) and the operands of its skip additions
FrustumSkipsCall ==
    /\ shape_call = NoShapeCall
    /\ \E rows \in 1..MaxB, d \in 1..MaxSize, w \in 1..MaxSize :
          LET xs == Ok(<<rows, FrustumInDim, d, w, w>>)
          IN  shape_call' = [net |-> "frustum_skips", rows |-> rows, d |-> d, w |-> w,
                             dict |-> FrustumTV3DNetForward(xs, rows, rows),
                             skips |-> FrustumTV3DNetSkips(xs, rows, rows,
                                                           FrustumInDim, FrustumDims)]
    /\ CallFrame

\* the single calls of the functions of the pipeline
CallNext ==
    \/ UnprojectSample
    \/ FrustumSample
    \/ InitMultiviewCall
    \/ ViewpointEmbeddingCall
    \/ ConstructCall
    \/ DepthCall
    \/ EncoderCall
    \/ GridCall
    \/ ResampleVoxelCall
    \/ TargetViewFeatsCall
    \/ NoisyTargetCall
    \/ FrustumSkipsCall
    \/ ShapeDone

CallSpec == Init /\ [][CallNext]_vars

\* ------------------------------------------------------------------ claims
\* the pass has resampled the volume for the target matrix target_indices
Resampled == pc = "frustum_done"
\* construct_view_frustum_volume was called (it returned or raised)
FrustumCalled == pc \in {"frustum_done", "raised"} /\ target_indices # EmptyTensor
NumViews == poses.shape[1]
AllInRange(ti) == \A i \in DOMAIN ti.data : ti.data[i] \in 0..(NumViews - 1)

\* C1: with every target index in [0, N), output row r of
\* construct_view_frustum_volume is computed with the pose, the intrinsics and
\* the viewpoint embedding of view target_indices[r div TN][r mod TN], and with
\* the spatial volume and the timestep embedding of batch element r div TN.
C1_RowUsesItsTargetView ==
    (Resampled /\ AllInRange(target_indices)) =>
        LET B == target_indices.shape[1]
            TN == target_indices.shape[2]
        IN  /\ frustum.rows.shape = <<B * TN>>
            /\ \A r \in 0..(B * TN - 1) :
                  LET b == r \div TN
                      n == At2(target_indices, b, r % TN)
                      row == At1(frustum.rows, r)
                  IN  /\ row.f.at.pose = At1(poses, n)
                      /\ row.f.at.K = At1(Ks, n)
                      /\ row.v = At2(v_embed, b, n)
                      /\ row.f.vol = At1(spatial_volume.rows, b)
                      /\ row.t = At1(t_embed, b)

\* two batch elements, two targets each, the two elements asking for the two
\* views in opposite orders
C1_Witness ==
    /\ Resampled
    /\ target_indices = Tensor(<<2, 2>>, [i \in 0..3 |-> IF i \in {0, 3} THEN 0 ELSE 1])

\* C6: for every B x TN matrix of indices in [0, N), repeated or not,
\* construct_view_frustum_volume returns without error a pyramid whose every
\* level has B*TN rows.
C6_AnyTargetSubsetIsServed ==
    (FrustumCalled /\ AllInRange(target_indices)) =>
        LET B == target_indices.shape[1]
            TN == target_indices.shape[2]
        IN  /\ pc = "frustum_done"
            /\ err = "none"
            /\ frustum.rows.shape = <<B * TN>>
            /\ DOMAIN frustum.dict # {}
            /\ \A k \in DOMAIN frustum.dict : frustum.dict[k].shape[1] = B * TN

\* a repeated index for one batch element, a strict subset for the other
C6_Witness ==
    /\ Resampled
    /\ view_num = 2
    /\ target_indices = Tensor(<<2, 2>>, [i \in 0..3 |-> IF i = 3 THEN 0 ELSE 1])

\* C7 as stated: every target index outside [0, N), negative ones included,
\* makes the call raise.
C7_EveryOutOfRangeIndexRaises ==
    (FrustumCalled /\ ~AllInRange(target_indices)) => pc = "raised"

\* C7 as the code has it: an index >= N or < -N makes the call raise an
\* IndexError with nothing returned; when all indices are in [-N, N) the call
\* returns, and a negative index i is served with view i + N.
C7_OutOfRangeRaisesNegativeWraps ==
    FrustumCalled =>
        LET B == target_indices.shape[1]
            TN == target_indices.shape[2]
            N == NumViews
        IN  IF \E i \in DOMAIN target_indices.data :
                  target_indices.data[i] >= N \/ target_indices.data[i] < -N
            THEN pc = "raised" /\ err = "IndexError" /\ frustum = NoFrustum
            ELSE /\ pc = "frustum_done"
                 /\ \A r \in 0..(B * TN - 1) :
                       LET b == r \div TN
                           i == At2(target_indices, b, r % TN)
                           n == IF i < 0 THEN i + N ELSE i
                           row == At1(frustum.rows, r)
                       IN  /\ row.f.at.pose = At1(poses, n)
                           /\ row.f.at.K = At1(Ks, n)
                           /\ row.v = At2(v_embed, b, n)

\* an index below -N next to a valid one: the call has raised
C7_Witness ==
    /\ pc = "raised"
    /\ view_num = 2
    /\ target_indices = Tensor(<<1, 2>>, [i \in 0..1 |-> IF i = 0 THEN 1 ELSE -3])

\* C8: channel n*C + c of the aggregated volume of batch element b is channel
\* c of the features sampled for view n, and the N*C channels are the
\* 16*view_num input channels of the refinement network.
C8_ViewsConcatenatedInOrder ==
    (pc = "spatial_done") =>
        LET B == x.shape[1]
            N == x.shape[2]
            C == EncoderOutDim
        IN  /\ Len(feats_list) = N
            /\ \A b \in 0..(B - 1) :
                  /\ DOMAIN At1(spatial_volume.rows, b).in = 0..(N * C - 1)
                  /\ \A n \in 0..(N - 1) : \A c \in 0..(C - 1) :
                        At1(spatial_volume.rows, b).in[n * C + c]
                            = At2(feats_list[n + 1], b, c)
            /\ N * C = svn.input_dim
            /\ svn.input_dim = 16 * view_num

C8_Witness ==
    /\ pc = "spatial_done"
    /\ x.shape = <<2, 2>>

\* C10: no step of a forward pass changes the learned parameters, the camera
\* buffers or the tensors handed in, and what the pass returns is stored in
\* newly allocated tensors.
ArgumentStores == {"params", "poses", "Ks", "azimuth", "x", "t_embed", "v_embed",
                   "target_indices", "spatial_volume"}
C10_ForwardPassStep ==
    /\ pc \in {"encode", "resample"}
    /\ pc' \in {"encode", "spatial_done", "frustum_done", "raised"}
C10_ForwardLeavesStateAlone ==
    [][C10_ForwardPassStep =>
          /\ params' = params
          /\ poses' = poses /\ Ks' = Ks /\ azimuth' = azimuth
          /\ x' = x /\ t_embed' = t_embed /\ v_embed' = v_embed
          /\ target_indices' = target_indices
          /\ (pc' = "spatial_done" => spatial_volume'.store \notin ArgumentStores)
          /\ (pc' = "frustum_done" =>
                 /\ frustum'.store \notin ArgumentStores
                 /\ spatial_volume' = spatial_volume)]_vars

\* a whole pass has run on a batch of two elements
C10_Witness ==
    /\ Resampled
    /\ x.shape = <<2, 2>>
    /\ target_indices.shape = <<2, 2>>

\* FrustumTV3DNet.forward returned a pyramid
PyramidReturned == shape_call.net = "frustum" /\ shape_call.dict # <<>>

\* C3 as stated: for every width w the returned pyramid has exactly the four
\* distinct entries w, w//2, w//4, w//8.
C3_FourLevelsForEveryWidth ==
    PyramidReturned =>
        LET w == shape_call.w
        IN  /\ DOMAIN shape_call.dict = {w, w \div 2, w \div 4, w \div 8}
            /\ Cardinality(DOMAIN shape_call.dict) = 4

\* C3 as the code has it: forward returns a pyramid exactly when the depth and
\* the width are each 1 or a multiple of 8. For a width w that is a multiple of
\* 8 the pyramid has exactly four entries, keyed w, w//2, w//4 and w//8 and
\* holding the levels x0, x1, x2 and x3 in this order; for the width 1 it has
\* the two entries 1 (x0) and 0 (x3).
C3_FourLevelsForWidthMultipleOf8 ==
    (shape_call.net = "frustum") =>
        LET w == shape_call.w
            Fits(n) == n = 1 \/ n % 8 = 0
        IN  /\ (shape_call.dict # <<>>) <=> (Fits(w) /\ Fits(shape_call.d))
            /\ (shape_call.dict # <<>> /\ w = 1) =>
                  /\ DOMAIN shape_call.dict = {0, 1}
                  /\ shape_call.dict[1].level = 0
                  /\ shape_call.dict[0].level = 3
            /\ (shape_call.dict # <<>> /\ w # 1) =>
                  /\ DOMAIN shape_call.dict = {w, w \div 2, w \div 4, w \div 8}
                  /\ Cardinality(DOMAIN shape_call.dict) = 4
                  /\ shape_call.dict[w].level = 0
                  /\ shape_call.dict[w \div 2].level = 1
                  /\ shape_call.dict[w \div 4].level = 2
                  /\ shape_call.dict[w \div 8].level = 3

C3_Witness ==
    /\ PyramidReturned
    /\ shape_call.w = 16
    /\ DOMAIN shape_call.dict = {16, 8, 4, 2}

\* C4 as stated: the levels of the pyramid all have the same channel count.
C4_SameChannelsAtEveryLevel ==
    PyramidReturned =>
        \A k1 \in DOMAIN shape_call.dict : \A k2 \in DOMAIN shape_call.dict :
            shape_call.dict[k1].shape[2] = shape_call.dict[k2].shape[2]

\* C4 as the code has it: for every B and TN, the level x0, x1, x2, x3 of the
\* pyramid has 64, 128, 256, 512 channels and B*TN rows.
C4_ChannelsPerLevel ==
    (shape_call.net = "frustum") =>
        /\ (shape_call.w % 8 = 0 /\ shape_call.d % 8 = 0) => shape_call.dict # <<>>
        /\ \A k \in DOMAIN shape_call.dict :
              LET lv == shape_call.dict[k]
              IN  /\ lv.shape[2] = <<64, 128, 256, 512>>[lv.level + 1]
                  /\ lv.shape[1] = shape_call.B * shape_call.TN

C4_Witness ==
    /\ PyramidReturned
    /\ shape_call.B = 2 /\ shape_call.TN = 2
    /\ shape_call.w = 8
    /\ shape_call.dict[1].shape[2] = 512
    /\ shape_call.dict[8].shape[2] = 64

\* C5 as stated: for every voxel resolution V the refined volume has 64
\* channels and size V x V x V, every skip connection adding equal sizes.
C5_VolumeKeepsEveryResolution ==
    (shape_call.net = "spatial") =>
        LET tr == shape_call.trace
        IN  /\ tr.out.ok
            /\ tr.out.shape = <<shape_call.B, 64, shape_call.V, shape_call.V, shape_call.V>>
            /\ \A i \in 1..3 : tr.skips[i][1] = tr.skips[i][2]

\* C5 as the code has it: the same for every V that is a multiple of 8; for
\* V = 1 the skip connections broadcast and the volume returned is 8 x 8 x 8;
\* for any other V the refinement network raises.
C5_VolumeKeepsResolutionMultipleOf8 ==
    (shape_call.net = "spatial") =>
        LET tr == shape_call.trace
            V == shape_call.V
        IN  IF V % 8 = 0
            THEN /\ tr.out.ok
                 /\ tr.out.shape = <<shape_call.B, 64, V, V, V>>
                 /\ \A i \in 1..3 : tr.skips[i][1].ok /\ tr.skips[i][1] = tr.skips[i][2]
            ELSE IF V = 1
            THEN /\ tr.out.shape = <<shape_call.B, 64, 8, 8, 8>>
                 /\ \A i \in 1..3 : tr.skips[i][1] # tr.skips[i][2]
            ELSE ~tr.out.ok

C5_Witness ==
    /\ shape_call.net = "spatial"
    /\ shape_call.V = 16 /\ shape_call.N = 2 /\ shape_call.B = 2
    /\ shape_call.trace.out.shape = <<2, 64, 16, 16, 16>>
    /\ shape_call.trace.skips[1][1].shape = <<2, 256, 4, 4, 4>>

\* C2: two rows of the resampler asked for the same view of the same batch
\* element of one batch carry the same features at every level of the pyramid,
\* be they rows of one call or of two calls with different target matrices.
C2_SameViewSameFeatures ==
    Resampled =>
        LET TN == target_indices.shape[2]
            flat == View(target_indices, <<Prod(target_indices.shape)>>)
            Rows == DOMAIN frustum.rows.data
        IN  /\ \A r1 \in Rows : \A r2 \in Rows :
                  (r1 \div TN = r2 \div TN /\ At1(flat, r1) = At1(flat, r2))
                      => PyramidRow(frustum, r1) = PyramidRow(frustum, r2)
            /\ seen_row.valid =>
                  \A r \in Rows :
                      (r \div TN = seen_row.b /\ At1(flat, r) = seen_row.n)
                          => PyramidRow(frustum, r) = seen_row.levels

\* target indices [0] and then [0, 0] on the same batch of size 1
C2_Witness ==
    /\ Resampled
    /\ seen_row.valid /\ seen_row.TN = 1 /\ seen_row.n = 0
    /\ target_indices = Tensor(<<1, 2>>, [i \in 0..1 |-> 0])

Sampled == shape_call.net \in {"grid_sample_2d", "grid_sample_3d"}
\* the position addressed along axis a lies a whole cell or more outside the grid
FarOutside(a) ==
    \/ PixelNum(shape_call.coords[a], shape_call.n) <= -PixelDen
    \/ PixelNum(shape_call.coords[a], shape_call.n) >= shape_call.n * PixelDen

\* C11 as stated: every sampling coordinate outside the bounds [-1, 1] of the
\* sampled grid yields an all-zero feature vector.
C11_EveryMissIsZero ==
    Sampled =>
        ((\E a \in 1..shape_call.rank :
              shape_call.coords[a] < -CoordDen \/ shape_call.coords[a] > CoordDen)
            => shape_call.out = ZeroFeature)

\* C11 as the code has it: the 2-d and the 3-d sampling return a feature
\* vector for every coordinate; it is all zero when the position lies a whole
\* cell or more outside the grid along some axis, and for a grid of nonzero
\* features only then: a position less than one cell outside gets the border
\* features scaled down by its distance to the border.
C11_FarMissesAreZero ==
    Sampled =>
        LET far == \E a \in 1..shape_call.rank : FarOutside(a)
            full == \A idx \in DOMAIN shape_call.vol : shape_call.vol[idx] = FeatureOne
        IN  /\ DOMAIN shape_call.out = 1..SampleChannels
            /\ far => shape_call.out = ZeroFeature
            /\ (full /\ ~far) => \A ch \in 1..SampleChannels : shape_call.out[ch] > 0

\* a point of a frustum grid far outside the spatial volume along one axis
C11_Witness ==
    /\ shape_call.net = "grid_sample_3d"
    /\ FarOutside(1) /\ ~FarOutside(2) /\ ~FarOutside(3)
    /\ \A idx \in DOMAIN shape_call.vol : shape_call.vol[idx] = FeatureOne
    /\ shape_call.out = ZeroFeature

\* get_viewpoint_embedding returned an embedding
Embedded == shape_call.net = "viewpoint_embedding" /\ shape_call.err = "none"

\* C12: for view index 0 and a batch element whose elevation_ref is the target
\* elevation of 30 degrees, the embedding is (0, sin = 0, cos = 1, 0).
C12_ReferenceViewEmbedding ==
    Embedded =>
        \A b \in 0..(shape_call.B - 1) :
            At1(shape_call.elevation_ref, b) = TargetElevationDeg =>
                /\ At3(shape_call.embedding, b, 0, 0) = 0
                /\ At3(shape_call.embedding, b, 0, 1) = <<0, 0>>
                /\ At3(shape_call.embedding, b, 0, 2) = <<2, 0>>

\* two batch elements at the target elevation, view 0 stored with a nonzero
\* azimuth
C12_Witness ==
    /\ Embedded
    /\ shape_call.B = 2 /\ shape_call.N = 2
    /\ At1(shape_call.azimuth, 0) = 30
    /\ \A b \in 0..1 : At1(shape_call.elevation_ref, b) = TargetElevationDeg

\* C13: the call returns when batch_size is the length of elevation_ref, and
\* then entry (b, n) of the embedding is (d_e[b], sin(d_a[n]), cos(d_a[n]), 0)
\* with d_e[b] = elevation_ref[b] - 30 degrees and d_a[n] = azimuth[n] -
\* azimuth[0].
C13_EmbeddingLayout ==
    (shape_call.net = "viewpoint_embedding") =>
        LET B == shape_call.B
            N == shape_call.N
            emb == shape_call.embedding
        IN  /\ (shape_call.elevation_ref.shape = <<B>>) => shape_call.err = "none"
            /\ (shape_call.err = "none") =>
                  /\ emb.shape = <<B, N, 4>>
                  /\ \A b \in 0..(B - 1) : \A n \in 0..(N - 1) :
                        LET d_a == At1(shape_call.azimuth, n) - At1(shape_call.azimuth, 0)
                        IN  /\ At3(emb, b, n, 0)
                                  = At1(shape_call.elevation_ref, b) - TargetElevationDeg
                            /\ At3(emb, b, n, 1) = Sin(d_a)
                            /\ At3(emb, b, n, 2) = Cos(d_a)
                            /\ At3(emb, b, n, 3) = 0

\* two batch elements of different elevations, two views of different azimuths
C13_Witness ==
    /\ Embedded
    /\ shape_call.B = 2 /\ shape_call.N = 2
    /\ At1(shape_call.elevation_ref, 0) # At1(shape_call.elevation_ref, 1)
    /\ At1(shape_call.azimuth, 0) # At1(shape_call.azimuth, 1)
    /\ At3(shape_call.embedding, 0, 1, 1) = <<2, 0>>

C15_IntrinsicsMatchInputImageSize ==
    (shape_call.net = "construct") =>
        \A n \in 0..(shape_call.view_num - 1) :
            IntrinsicsImageSize(At1(shape_call.Ks, n)) = shape_call.svn.input_image_size

\* the stages of a training step that precede the denoising network
C16_BeforeDenoising == {"encode", "spatial_done", "resample", "frustum_done", "raised"}
C16_Invoked ==
    /\ (pc \in C16_BeforeDenoising \cup {"idle"}) => shape_call = NoShapeCall
    /\ (pc = "denoised") => (shape_call.net = "unet" /\ shape_call.count = 1)
C16_Step ==
    /\ (pc' = "encode") => (pc \in {"idle", "encode"})
    /\ (pc' = "spatial_done") =>
          /\ pc = "encode"
          /\ ni = x.shape[2]
          /\ Len(feats_list) = x.shape[2]
    /\ (pc' = "resample") =>
          /\ pc = "spatial_done"
          /\ spatial_volume # NoVolume
          /\ spatial_volume' = spatial_volume
    /\ (pc' = "frustum_done") => (pc = "resample" /\ frustum' # NoFrustum)
    /\ (pc' = "denoised") =>
          /\ pc = "frustum_done"
          /\ frustum # NoFrustum
          /\ shape_call = NoShapeCall
          /\ shape_call'.volume_feats = frustum
    /\ (pc = "denoised") => (pc' = "idle")

\* C16: in every training step all N views are encoded and projected before
\* the 3D refinement runs, the refined volume is complete before the frustum
\* resampling starts, and the denoising network is invoked once, on the
\* pyramid the resampler returned, after which the step ends.
C16_StagesInOrder == []C16_Invoked /\ [][C16_Step]_vars

\* a training step on two batch elements of two views has invoked the
\* denoising network
C16_Witness ==
    /\ pc = "denoised"
    /\ shape_call.net = "unet"
    /\ x.shape = <<2, 2>>
    /\ Len(feats_list) = 2

\* the errors of the tensor runtime
C17_RuntimeErrors == {"IndexError", "RuntimeError"}
C17_Step ==
    /\ (pc \in {"encode", "resample"}) =>
          (pc' \in {"encode", "spatial_done", "frustum_done", "raised"})
    /\ (pc' \in {"spatial_done", "frustum_done"}) => err' = "none"
    /\ (pc' = "spatial_done") => spatial_volume' # NoVolume
    /\ (pc' = "frustum_done") => frustum' # NoFrustum
    /\ (pc' = "raised") =>
          /\ pc \in {"encode", "resample"}
          /\ err' \in C17_RuntimeErrors
          /\ frustum' = NoFrustum
          /\ (pc = "encode") => spatial_volume' = NoVolume
    /\ (pc = "raised") =>
          /\ pc' = "idle"
          /\ spatial_volume' = NoVolume
          /\ frustum' = NoFrustum

\* C17: a forward pass either returns its result or raises an error of the
\* tensor runtime; the method that raised returns nothing, and the error
\* ends the pass: the caller gets no result and the pass is not run again.
C17_CompletesOrRaises == [][C17_Step]_vars

\* a pass whose resampling raised on a target index >= N
C17_Witness ==
    /\ pc = "raised"
    /\ err = "IndexError"
    /\ spatial_volume # NoVolume
    /\ \E i \in DOMAIN target_indices.data : target_indices.data[i] >= NumViews

\* the frustum's depth samples have been built
DepthBuilt == shape_call.net = "create_target_volume"

EncodedLatent == shape_call.net = "encoder" /\ shape_call.x[2] = LatentChannels

\* C20: on a 4-channel input of size H x W the encoder returns output_dim
\* channels at the same H x W, and init_conv and each of the three residual
\* blocks return run_dim channels at H x W.
C20_EncoderKeepsSize ==
    EncodedLatent =>
        LET xs == shape_call.x
        IN  /\ shape_call.out = Ok(<<xs[1], shape_call.output_dim, xs[3], xs[4]>>)
            /\ \A i \in 1..4 :
                  shape_call.trace[i] = Ok(<<xs[1], RunDim, xs[3], xs[4]>>)

\* two 4-channel images of 3 x 2 pixels encoded to 8 channels
C20_Witness ==
    /\ EncodedLatent
    /\ shape_call.x = <<2, LatentChannels, 3, 2>>
    /\ shape_call.output_dim = DefaultOutputDim
    /\ shape_call.out.ok

\* C21: the features in view n's slot, for batch element b and channel c, are
\* those of the encoder applied to x[b][n] with t_embed[b] and v_embed[b][n],
\* sampled at the projection of the canonical grid through target_poses[n]
\* and target_Ks[n].
C21_ViewUsesItsOwnInputs ==
    (pc \in {"encode", "spatial_done"}) =>
        \A n \in 0..(Len(feats_list) - 1) :
            \A b \in 0..(x.shape[1] - 1) : \A c \in 0..(EncoderOutDim - 1) :
                At2(feats_list[n + 1], b, c)
                    = [f |-> [p |-> params, x |-> At2(x, b, n), t |-> At1(t_embed, b),
                              v |-> At2(v_embed, b, n), c |-> c],
                       at |-> [K |-> At1(Ks, n), pose |-> At1(poses, n)]]

\* the loop has filled the slots of both views of a batch of two elements
C21_Witness ==
    /\ pc = "encode"
    /\ x.shape = <<2, 2>>
    /\ Len(feats_list) = 2
    /\ At1(poses, 0) # At1(poses, 1)

\* a voxel's own world point was resampled
VoxelResampled == shape_call.net = "resample_voxel"

\* C22: the world point of voxel (i, j, k), divided by the half-length L,
\* is a grid location in [-1, 1]^3 whose whole interpolation weight lies on
\* voxel (i, j, k), so the sample there is the feature of that voxel.
C22_VoxelAddressesItself ==
    VoxelResampled =>
        /\ \A c \in 1..3 : /\ FracLeq(Frac(-1, 1), shape_call.xyz[c])
                           /\ FracLeq(shape_call.xyz[c], Frac(1, 1))
        /\ \A tap \in shape_call.taps :
              IF tap.cell = shape_call.voxel THEN tap.weight = tap.of
              ELSE tap.weight = 0
        /\ \A ch \in 1..SampleChannels :
              \A tap \in shape_call.taps :
                 shape_call.out[ch] = tap.of * shape_call.vol[shape_call.voxel][ch]

\* the voxel (0, 1, 2) of a 3 x 3 x 3 volume was resampled
C22_Witness ==
    /\ VoxelResampled
    /\ shape_call.V = 3
    /\ shape_call.voxel = <<0, 1, 2>>

\* the canonical grid was built
GridBuilt == shape_call.net = "canonical_grid"

FeatsSelected == shape_call.net = "target_view_feats"
TargetSelected == shape_call.net = "noisy_target"

\* C24: row r of the projected CLIP embedding is computed from the CLIP
\* embedding of batch element r div TN and the viewpoint embedding of view
\* target_index[r div TN][r mod TN] of that element, the same viewpoint row
\* the frustum resampler uses; row r of the repeated input latent is that of
\* batch element r div TN; and in training_step the noisy latent and the
\* noise target of batch element b are those of view target_index[b].
C24_ConditioningRefersToOneView ==
    /\ FeatsSelected =>
          LET ti == shape_call.target_index
              B == ti.shape[1]
              TN == ti.shape[2]
              seed == shape_call.seed
          IN  /\ shape_call.clip_embed.shape = <<B * TN>>
              /\ shape_call.x_concat.shape = <<B * TN>>
              /\ \A r \in 0..(B * TN - 1) :
                    LET b == r \div TN
                        n == At2(ti, b, r % TN)
                    IN  /\ At1(shape_call.clip_embed, r).clip = <<"clip", seed, b>>
                        /\ At1(shape_call.clip_embed, r).v = <<"v", seed, b, n>>
                        /\ At1(shape_call.clip_embed, r).v = At1(shape_call.frustum_v, r)
                        /\ At1(shape_call.x_concat, r) = <<"x_input", seed, b>>
    /\ TargetSelected =>
          LET ti == shape_call.target_index
              seed == shape_call.seed
          IN  /\ shape_call.x_noisy.shape = <<shape_call.B>>
              /\ shape_call.noise_target.shape = <<shape_call.B>>
              /\ \A b \in 0..(shape_call.B - 1) :
                    /\ At1(shape_call.x_noisy, b) = <<"x_noisy", seed, b, At2(ti, b, 0)>>
                    /\ At1(shape_call.noise_target, b) = <<"noise", seed, b, At2(ti, b, 0)>>

\* two batch elements with two requested views each, in different orders
C24_Witness ==
    /\ FeatsSelected
    /\ shape_call.target_index = Tensor(<<2, 2>>, [i \in 0..3 |-> IF i \in {0, 3} THEN 1 ELSE 0])

\* two batch elements trained on different target views
C24_WitnessTraining ==
    /\ TargetSelected
    /\ shape_call.target_index = Tensor(<<2, 1>>, [i \in 0..1 |-> 1 - i])

\* FrustumTV3DNet.forward was called and its skip additions recorded
SkipsTraced == shape_call.net = "frustum_skips"
\* 2^k for the four levels k = 0..3
LevelStride(k) == <<1, 2, 4, 8>>[k + 1]
\* every key of the dict is the width (and height) of the tensor under it
KeysAreWidths ==
    \A k \in DOMAIN shape_call.dict :
        /\ shape_call.dict[k].shape[5] = k
        /\ shape_call.dict[k].shape[4] = k
\* the operands of every skip addition have the same depth, height and width
SkipsFit ==
    \A i \in 1..3 :
        /\ shape_call.skips[i][1].ok
        /\ shape_call.skips[i][2].ok
        /\ SubSeq(shape_call.skips[i][1].shape, 3, 5)
              = SubSeq(shape_call.skips[i][2].shape, 3, 5)

\* C25 as stated: for every input width the forward returns, every key is
\* the width of the tensor stored under it and the skip additions fit.
C25_KeysAreWidthsForEveryWidth ==
    SkipsTraced => (shape_call.dict # <<>> /\ KeysAreWidths /\ SkipsFit)

\* C25 as the code has it: when the width and the depth are multiples of 8
\* the forward returns, key w // 2^k holds level k with width and height
\* w // 2^k and depth d // 2^k, and the operands of every skip addition have
\* equal sizes. For any other width or depth the skip additions do not fit:
\* the forward raises, or (sizes 1) it broadcasts, and for the width 1 the
\* key 1 then holds a tensor of width 8.
C25_KeysAreWidthsForMultiplesOf8 ==
    SkipsTraced =>
        LET w == shape_call.w
            d == shape_call.d
        IN  IF w % 8 = 0 /\ d % 8 = 0
            THEN /\ shape_call.dict # <<>>
                 /\ SkipsFit
                 /\ KeysAreWidths
                 /\ \A k \in 0..3 :
                       LET lv == shape_call.dict[w \div LevelStride(k)]
                       IN  /\ lv.level = k
                           /\ lv.shape[3] = d \div LevelStride(k)
            ELSE /\ ~SkipsFit
                 /\ (shape_call.dict # <<>> /\ w % 8 = 0) => KeysAreWidths
                 /\ (shape_call.dict # <<>> /\ w % 8 # 0) =>
                       (w = 1 /\ shape_call.dict[1].shape[5] = 8)

\* the pyramid of a frustum volume of width 16 and depth 8
C25_Witness ==
    /\ SkipsTraced
    /\ shape_call.w = 16
    /\ shape_call.d = 8
    /\ shape_call.dict # <<>>
    /\ shape_call.skips[1][1].shape[5] = 4

\* C26 as stated: for every image_size the model is constructed with, the
\* frustum width of its SpatialVolumeNet equals its latent_size, image_size // 8.
C26_FrustumWidthIsLatentSize ==
    (shape_call.net = "construct") =>
        shape_call.svn.frustum_volume_size = shape_call.latent_size

====
